---- MODULE Spec2Model ----
(***************************************************************************)
(* lcftrans: the translation catalog (Translation), its PO codec, Merge    *)
(* and Match, and the three drivers of lcftrans/src/main.cpp that apply    *)
(* them to the files of a game directory: DumpLdb, DumpLmu/DumpLmt         *)
(* (create and update mode) and MatchMode (match mode).                    *)
(*                                                                         *)
(* Text is a sequence of characters.  A decoded string may hold the four   *)
(* characters the codec escapes, written "QUOTE", "BSL", "NL" and "TAB".   *)
(* A catalog file is a sequence of lines, each a record [tag, body]: tag   *)
(* is the keyword that opens the line ("#:", "#,", "msgctxt", "msgid",     *)
(* "msgstr", "cont" for a continuation string, "blank") and body the       *)
(* characters between the quotes (after the keyword for comments).         *)
(***************************************************************************)
EXTENDS Integers, Sequences, FiniteSets, TLC

VARIABLES
    mode,          \* "create" | "update" | "match": the flags create, update, match
    source_files,  \* file names still to be processed by the driving loop
    outdir_files,  \* directory listing read at startup (names of saved catalogs)
    outdir,        \* output directory: file name -> lines, or NoFile
    indir,         \* match mode: catalogs of DIRECTORY, file name -> lines or NoFile
    merge_indir,   \* match mode: catalogs of MDIR, file name -> lines or NoFile
    calls,         \* what the handler that ran last did, one record per catalog
    status         \* "running" | "crashed": the process was killed inside a write

vars == <<mode, source_files, outdir_files, outdir, indir, merge_indir, calls, status>>

\* ---------------------------------------------------------------- bounds
MaxFresh == 2
MaxExisting == 2
MaxDst == 2
MaxSrc == 2

\* ------------------------------------------------------------- sequences
\* ------------------------------------------------------- Entry / Catalog
Key(e) == <<e.context, e.original>>

Keys(c) == [i \in 1..Len(c) |-> Key(c[i])]

KeySet(c) == {Key(c[i]) : i \in 1..Len(c)}

HasKey(c, k) == \E i \in 1..Len(c) : Key(c[i]) = k

\* first entry of c with identity key k (c holds one)
Lookup(c, k) == c[CHOOSE i \in 1..Len(c) : Key(c[i]) = k /\ \A j \in 1..(i - 1) : Key(c[j]) # k]

\* the catalogs of at most n entries drawn from E, identity keys unique
RECURSIVE CatalogsOf(_, _)
CatalogsOf(E, n) ==
    IF n = 0 THEN {<<>>}
    ELSE LET shorter == CatalogsOf(E, n - 1)
         IN shorter \cup UNION {{Append(c, e) : e \in {x \in E : ~HasKey(c, Key(x))}} :
                                 c \in {q \in shorter : Len(q) = n - 1}}

\* ------------------------------------------------------------ PO codec
\* Codec.Write escapes quote, backslash, newline and tab (spec 4.1)
RECURSIVE Escape(_)
Escape(s) ==
    IF s = <<>> THEN <<>>
    ELSE LET c == Head(s)
             e == CASE c = "QUOTE" -> <<"BSL", "QUOTE">>
                    [] c = "BSL"   -> <<"BSL", "BSL">>
                    [] c = "NL"    -> <<"BSL", "n">>
                    [] c = "TAB"   -> <<"BSL", "t">>
                    [] OTHER       -> <<c>>
         IN e \o Escape(Tail(s))

\* Codec.Parse undoes the backslash escapes (spec 4.1)
RECURSIVE Unescape(_)
Unescape(s) ==
    IF s = <<>> THEN <<>>
    ELSE IF Head(s) = "BSL" /\ Len(s) >= 2
         THEN LET c == s[2]
                  d == CASE c = "QUOTE" -> <<"QUOTE">>
                         [] c = "BSL"   -> <<"BSL">>
                         [] c = "n"     -> <<"NL">>
                         [] c = "t"     -> <<"TAB">>
                         [] OTHER       -> <<"BSL", c>>
              IN d \o Unescape(Tail(Tail(s)))
         ELSE <<Head(s)>> \o Unescape(Tail(s))

\* the context-delimiter convention of the catalog format
CtxDelim == "."

\* context segments joined for the msgctxt field
RECURSIVE JoinContext(_)
JoinContext(ctx) ==
    IF ctx = <<>> THEN <<>>
    ELSE IF Len(ctx) = 1 THEN ctx[1]
    ELSE ctx[1] \o <<CtxDelim>> \o JoinContext(Tail(ctx))

\* the msgctxt text split on the delimiter; an absent or empty field is the empty context
RECURSIVE SplitContext(_)
SplitContext(s) ==
    IF s = <<>> THEN <<>>
    ELSE IF \E i \in 1..Len(s) : s[i] = CtxDelim
         THEN LET i == CHOOSE k \in 1..Len(s) : s[k] = CtxDelim /\ \A j \in 1..(k - 1) : s[j] # CtxDelim
                  rest == SubSeq(s, i + 1, Len(s))
              IN <<SubSeq(s, 1, i - 1)>> \o (IF rest = <<>> THEN << <<>> >> ELSE SplitContext(rest))
         ELSE <<s>>

\* a decoded string cut after each newline
RECURSIVE SplitLines(_)
SplitLines(s) ==
    IF s = <<>> THEN <<>>
    ELSE IF \E i \in 1..Len(s) : s[i] = "NL"
         THEN LET i == CHOOSE k \in 1..Len(s) : s[k] = "NL" /\ \A j \in 1..(k - 1) : s[j] # "NL"
              IN <<SubSeq(s, 1, i)>> \o SplitLines(SubSeq(s, i + 1, Len(s)))
         ELSE <<s>>

Line(tag, body) == [tag |-> tag, body |-> body]

\* a string field: one quoted line, or an empty first line and one
\* continuation line per line of the text when the text holds a newline
WriteField(tag, s) ==
    IF \E i \in 1..Len(s) : s[i] = "NL"
    THEN LET ls == SplitLines(s)
         IN <<Line(tag, <<>>)>> \o [i \in 1..Len(ls) |-> Line("cont", Escape(ls[i]))]
    ELSE <<Line(tag, Escape(s))>>

FuzzyMarker == <<"f", "u", "z", "z", "y">>

\* one record per Entry: location comments, fuzzy marker, msgctxt, msgid, msgstr
WriteEntry(e) ==
    [i \in 1..Len(e.locations) |-> Line("#:", e.locations[i])]
    \o (IF e.fuzzy THEN <<Line("#,", FuzzyMarker)>> ELSE <<>>)
    \o (IF e.context # <<>> THEN WriteField("msgctxt", JoinContext(e.context)) ELSE <<>>)
    \o WriteField("msgid", e.original)
    \o WriteField("msgstr", e.translation)
    \o <<Line("blank", <<>>)>>

\* the single leading metadata record, msgid ""
Header == <<Line("msgid", <<>>), Line("msgstr", <<>>), Line("cont", <<"v", "BSL", "n">>), Line("blank", <<>>)>>

RECURSIVE WriteEntries(_)
WriteEntries(c) == IF c = <<>> THEN <<>> ELSE WriteEntry(Head(c)) \o WriteEntries(Tail(c))

\* Codec.Write(Catalog) -> text (Translation::write)
Write(c) == Header \o WriteEntries(c)

\* parser state: the catalog so far, the record being read, the field being continued
NoRecord == [has |-> {}, ctx |-> <<>>, id |-> <<>>, str |-> <<>>, fuzzy |-> FALSE, locs |-> <<>>,
             field |-> "none", any |-> FALSE]

ParseStart == [entries |-> <<>>, first |-> TRUE, cur |-> NoRecord]

\* end of a record: the leading msgid "" record is metadata, a record without
\* msgid is a ParseError and is skipped, any other record becomes an Entry
Flush(st) ==
    LET r == st.cur
    IN IF ~r.any THEN st
       ELSE IF "id" \notin r.has THEN [st EXCEPT !.cur = NoRecord, !.first = FALSE]
       ELSE IF st.first /\ r.id = <<>> THEN [st EXCEPT !.cur = NoRecord, !.first = FALSE]
       ELSE [entries |-> Append(st.entries,
                                [context |-> SplitContext(r.ctx), original |-> r.id,
                                 translation |-> r.str, fuzzy |-> r.fuzzy, locations |-> r.locs]),
             first |-> FALSE, cur |-> NoRecord]

ParseLine(st, l) ==
    LET r == st.cur
        t == Unescape(l.body)
    IN CASE l.tag = "blank" -> Flush(st)
         [] l.tag = "#:" -> [st EXCEPT !.cur = [r EXCEPT !.locs = Append(r.locs, l.body), !.any = TRUE]]
         [] l.tag = "#," -> [st EXCEPT !.cur = [r EXCEPT !.fuzzy = (l.body = FuzzyMarker), !.any = TRUE]]
         [] l.tag = "msgctxt" ->
                [st EXCEPT !.cur = [r EXCEPT !.ctx = t, !.has = r.has \cup {"ctx"}, !.field = "ctx", !.any = TRUE]]
         [] l.tag = "msgid" ->
                [st EXCEPT !.cur = [r EXCEPT !.id = t, !.has = r.has \cup {"id"}, !.field = "id", !.any = TRUE]]
         [] l.tag = "msgstr" ->
                [st EXCEPT !.cur = [r EXCEPT !.str = t, !.has = r.has \cup {"str"}, !.field = "str", !.any = TRUE]]
         [] l.tag = "cont" ->
                (CASE r.field = "ctx" -> [st EXCEPT !.cur = [r EXCEPT !.ctx = r.ctx \o t]]
                   [] r.field = "id"  -> [st EXCEPT !.cur = [r EXCEPT !.id = r.id \o t]]
                   [] r.field = "str" -> [st EXCEPT !.cur = [r EXCEPT !.str = r.str \o t]]
                   [] OTHER -> st)
         [] OTHER -> st

RECURSIVE ParseFrom(_, _)
ParseFrom(st, text) == IF text = <<>> THEN st ELSE ParseFrom(ParseLine(st, Head(text)), Tail(text))

\* Codec.Parse(text) -> Catalog (Translation::fromPO)
Parse(text) == Flush(ParseFrom(ParseStart, text)).entries

\* ------------------------------------------------------ Merge and Match
\* Merge(fresh, existing) -> (merged, stale), spec 4.3: an entry of fresh whose
\* identity key is in existing takes that entry's translation and fuzzy flag;
\* the entries of existing whose key is not in fresh are stale, in their order
Merge(fresh, existing) ==
    [merged |-> [i \in 1..Len(fresh) |->
                    IF HasKey(existing, Key(fresh[i]))
                    THEN LET m == Lookup(existing, Key(fresh[i]))
                         IN [fresh[i] EXCEPT !.translation = m.translation, !.fuzzy = m.fuzzy]
                    ELSE fresh[i]],
     stale |-> SelectSeq(existing, LAMBDA e : ~HasKey(fresh, Key(e)))]

LowerChar(c) == CASE c = "A" -> "a" [] c = "B" -> "b" [] c = "C" -> "c" [] OTHER -> c

IsSpace(c) == c \in {" ", "NL", "TAB"}

\* case- and whitespace-insensitive form of a text (approximate comparator)
RECURSIVE Normalize(_)
Normalize(s) ==
    IF s = <<>> THEN <<>>
    ELSE IF IsSpace(Head(s)) THEN Normalize(Tail(s))
    ELSE <<LowerChar(Head(s))>> \o Normalize(Tail(s))

ExactIn(source, d) == \E j \in 1..Len(source) : source[j].original = d.original

NearIn(source, d) ==
    /\ ~ExactIn(source, d)
    /\ \E j \in 1..Len(source) : Normalize(source[j].original) = Normalize(d.original)

\* best candidate: the first source entry that compares equal
FirstExact(source, d) ==
    source[CHOOSE j \in 1..Len(source) :
              /\ source[j].original = d.original
              /\ \A k \in 1..(j - 1) : source[k].original # d.original]

FirstNear(source, d) ==
    source[CHOOSE j \in 1..Len(source) :
              /\ Normalize(source[j].original) = Normalize(d.original)
              /\ \A k \in 1..(j - 1) : Normalize(source[k].original) # Normalize(d.original)]

\* "When matched the original in MDIR becomes the translation of DIRECTORY"
Answer(s) == s.original

\* Match(destination, source) -> (updated_destination, matched_count, stale), spec 4.4
Match(destination, source) ==
    [updated |-> [i \in 1..Len(destination) |->
                    LET d == destination[i]
                    IN IF ExactIn(source, d)
                       THEN [d EXCEPT !.translation = Answer(FirstExact(source, d)), !.fuzzy = FALSE]
                       ELSE IF NearIn(source, d)
                       THEN [d EXCEPT !.translation = Answer(FirstNear(source, d)), !.fuzzy = TRUE]
                       ELSE d],
     matched |-> Cardinality({i \in 1..Len(destination) : ExactIn(source, destination[i])}),
     stale |-> SelectSeq(destination, LAMBDA d : ~ExactIn(source, d) /\ ~NearIn(source, d))]

\* ------------------------------------------------------------ file names
DATABASE_FILE == "rpg_rt.ldb"
MAPTREE_FILE == "rpg_rt.lmt"

\* a file: whether it exists and its lines
NoFile == [exists |-> FALSE, text |-> <<>>]

File(text) == [exists |-> TRUE, text |-> text]

\* Utils::LowerCase on the file names that occur
LowerCase(name) ==
    CASE name = "RPG_RT.ldb" -> "rpg_rt.ldb"
      [] name = "RPG_RT.lmt" -> "rpg_rt.lmt"
      [] name = "Map0001.lmu" -> "map0001.lmu"
      [] name = "RPG_RT.ldb.po" -> "rpg_rt.ldb.po"
      [] name = "RPG_RT.ldb.common.po" -> "rpg_rt.ldb.common.po"
      [] name = "RPG_RT.ldb.battle.po" -> "rpg_rt.ldb.battle.po"
      [] name = "RPG_RT.lmt.po" -> "rpg_rt.lmt.po"
      [] name = "Map0001.po" -> "map0001.po"
      [] name = "MAP0001.PO" -> "map0001.po"
      [] OTHER -> name

\* Utils::HasExt(lname, ".lmu")
HasExtLmu(lname) == lname \in {"map0001.lmu"}

\* Utils::GetFilename: the file name without directory and extension
GetFilename(filename) == CASE filename = "Map0001.lmu" -> "Map0001" [] OTHER -> filename

\* the lambda ends_with_po of MatchMode
ends_with_po(src) == LowerCase(src) \in {"rpg_rt.ldb.po", "rpg_rt.ldb.common.po", "rpg_rt.ldb.battle.po",
                                        "rpg_rt.lmt.po", "map0001.po"}

\* o.first.substr(0, o.first.size() - 3): the name without its last three characters
StripPo(name) ==
    CASE name = "Map0001.po" -> "Map0001"
      [] name = "MAP0001.PO" -> "MAP0001"
      [] OTHER -> name

\* first file of the listing whose lower-cased name is `file`, "" when there is none
get_outdir_file(files, file) ==
    IF \E i \in 1..Len(files) : LowerCase(files[i]) = file
    THEN files[CHOOSE i \in 1..Len(files) :
                  /\ LowerCase(files[i]) = file
                  /\ \A j \in 1..(i - 1) : LowerCase(files[j]) # file]
    ELSE ""

\* ---------------------------------------------------------- file output
\* std::ofstream outfile(name); c.write(outfile): the file is truncated when it is
\* opened and the records follow; a process killed in between leaves what was
\* flushed: nothing ("open") or the first half of the lines ("half")
ofstreamAppend(disk, name, c, part) ==
    [disk EXCEPT ![name] = File(disk[name].text \o Write(c))]

ofstream(disk, name, c, part) ==
    LET text == Write(c)
    IN [disk EXCEPT ![name] = File(CASE part = "all" -> text
                                     [] part = "open" -> <<>>
                                     [] OTHER -> SubSeq(text, 1, Len(text) \div 2))]

NoCrash == [dump |-> 0, at |-> "none", part |-> "all"]

\* ti.Merge(pot): the receiver ti becomes the merged catalog, the stale catalog is returned
MergeCallSwapped(ti, pot) == Merge(pot, ti)

MergeCall(ti, pot) == Merge(ti, pot)

\* dst_po.Match(src_po, matched): dst_po becomes the updated destination
MatchCallSwapped(dst_po, src_po) == Match(src_po, dst_po)

MatchCall(dst_po, src_po) == Match(dst_po, src_po)

\* what a handler leaves: the directory, whether the run died, the record of the call
Outcome(handler, poname, outName, staleName, fresh, merging, pot, t, stale, matched, fuzzy, prior, w) ==
    [disk |-> w.disk,
     crashed |-> w.crashed,
     call |-> [handler |-> handler, poname |-> poname, outname |-> outName, stalename |-> staleName,
               fresh |-> fresh, merging |-> merging, pot |-> pot, t |-> t, stale |-> stale,
               matched |-> matched, fuzzy |-> fuzzy, prior |-> prior,
               written |-> w.written, skipped |-> FALSE, crashed |-> w.crashed]]

\* std::ofstream outfile(outdir + "/" + poname + ".po"); ti.write(outfile);
WriteMain(disk, done, outName, t, crash) ==
    [disk |-> ofstream(disk, outName, t, IF crash.at = "po" THEN crash.part ELSE "all"),
     crashed |-> crash.at = "po",
     written |-> done \cup {outName}]

\* if (!stale.getEntries().empty()) { ...; stale.write(outfile); } and then the write of
\* the catalog itself, which a run killed in the first write never reaches
WriteBoth(disk, staleName, stale, outName, t, crash) ==
    IF stale # <<>> /\ crash.at = "stale"
    THEN [disk |-> ofstream(disk, staleName, stale, crash.part), crashed |-> TRUE, written |-> {staleName}]
    ELSE IF stale # <<>>
    THEN WriteMain(ofstream(disk, staleName, stale, "all"), {staleName}, outName, t, crash)
    ELSE WriteMain(disk, {}, outName, t, crash)

\* auto stale = ti.Merge(pot); the stale file; the file of ti
WriteMerged(handler, disk, ti, poname, crash, merging, pot, r) ==
    Outcome(handler, poname, poname \o ".po", poname \o ".stale.po", ti, merging, pot, r.merged, r.stale,
            0, 0, disk[poname \o ".po"],
            WriteBoth(disk, poname \o ".stale.po", r.stale, poname \o ".po", r.merged, crash))

\* pot = Translation::fromPO(outdir + "/" + po); auto stale = ti.Merge(pot);
MergeWith(handler, disk, ti, poname, crash, merging, pot) ==
    WriteMerged(handler, disk, ti, poname, crash, merging, pot,
                IF merging THEN MergeCall(ti, pot) ELSE [merged |-> ti, stale |-> <<>>])

\* if (!po.empty()) { ... }
UpdateWith(handler, disk, ti, poname, crash, po) ==
    MergeWith(handler, disk, ti, poname, crash, po # "", IF po # "" THEN Parse(disk[po].text) ELSE <<>>)

\* the update block and the final write shared by the dump lambda and DumpLmuLmtInner
MergeAndWrite(handler, disk, files, upd, ti, poname, crash) ==
    UpdateWith(handler, disk, ti, poname, crash,
               IF upd THEN get_outdir_file(files, LowerCase(poname \o ".po")) ELSE "")

\* the lambda dump of DumpLdb
dump(disk, files, upd, ti, poname, crash) == MergeAndWrite("DumpLdb", disk, files, upd, ti, poname, crash)

\* DumpLmuLmtInner: a file without terms is skipped before anything else happens
DumpLmuLmtInner(handler, disk, files, upd, t, poname, crash) ==
    IF t = <<>>
    THEN [disk |-> disk, crashed |-> FALSE,
          call |-> [handler |-> handler, poname |-> poname, outname |-> poname \o ".po",
                    stalename |-> poname \o ".stale.po",
                    fresh |-> t, merging |-> FALSE, pot |-> <<>>, t |-> t, stale |-> <<>>,
                    matched |-> 0, fuzzy |-> 0, prior |-> disk[poname \o ".po"],
                    written |-> {}, skipped |-> TRUE, crashed |-> FALSE]]
    ELSE MergeAndWrite(handler, disk, files, upd, t, poname, crash)

\* the outcome of a handler that dumps one catalog
Single(r) == [disk |-> r.disk, calls |-> <<r.call>>, crashed |-> r.crashed]

Prepend(call, rest) == [disk |-> rest.disk, calls |-> <<call>> \o rest.calls, crashed |-> rest.crashed]

\* dump(t.terms, ...); dump(t.common_events, ...); dump(t.battle_events, ...): the
\* catalogs one after the other; a run killed in a write does not reach the next
RECURSIVE DumpEach(_, _, _, _, _, _)
RECURSIVE DumpRest(_, _, _, _, _, _)
DumpEach(disk, files, upd, items, k, crash) ==
    IF items = <<>> THEN [disk |-> disk, calls |-> <<>>, crashed |-> FALSE]
    ELSE DumpRest(dump(disk, files, upd, Head(items)[1], Head(items)[2], IF crash.dump = k THEN crash ELSE NoCrash),
                  files, upd, Tail(items), k, crash)

DumpRest(r, files, upd, items, k, crash) ==
    IF r.crashed THEN Single(r)
    ELSE Prepend(r.call, DumpEach(r.disk, files, upd, items, k + 1, crash))

\* the loop of MatchMode that counts the entries of dst_po with the fuzzy flag set
FuzzyCount(entries) == Cardinality({i \in 1..Len(entries) : entries[i].fuzzy})

\* the report, the unmatched file and the file of dst_po
MatchWrite(disk, o, crash, src_po, dst_po, r) ==
    Outcome("MatchMode", o, o, StripPo(o) \o ".unmatched.po", dst_po, FALSE, src_po, r.updated, r.stale,
            r.matched, FuzzyCount(r.updated), disk[o],
            WriteBoth(disk, StripPo(o) \o ".unmatched.po", r.stale, o, r.updated, crash))

\* auto stale = dst_po.Match(src_po, matched);
MatchParsed(disk, o, crash, src_po, dst_po) ==
    MatchWrite(disk, o, crash, src_po, dst_po, MatchCall(dst_po, src_po))

\* body of the inner loop of MatchMode for the source file s and the catalog o
MatchOne(disk, s, o, crash) ==
    MatchParsed(disk, o, crash, Parse(merge_indir[s].text), Parse(indir[o].text))

\* the comparator a.first < b.first of std::sort, on the names that occur
NameRank(name) ==
    CASE name = "MAP0001.PO" -> 1
      [] name = "Map0001.lmu" -> 2
      [] name = "Map0001.po" -> 3
      [] name = "RPG_RT.ldb" -> 4
      [] name = "RPG_RT.lmt" -> 5
      [] OTHER -> 6

RECURSIVE SortFiles(_)
SortFiles(files) ==
    IF files = <<>> THEN <<>>
    ELSE LET m == CHOOSE i \in 1..Len(files) : \A j \in 1..Len(files) : NameRank(files[i]) <= NameRank(files[j])
         IN <<files[m]>> \o SortFiles([k \in 1..(Len(files) - 1) |-> IF k < m THEN files[k] ELSE files[k + 1]])

\* the pairs (s, o) the two loops of MatchMode visit, in order
RECURSIVE MatchPairs(_, _)
MatchPairs(sources, files) ==
    IF sources = <<>> THEN <<>>
    ELSE LET s == Head(sources)
             os == IF ends_with_po(s) THEN SelectSeq(files, LAMBDA o : LowerCase(s) = LowerCase(o)) ELSE <<>>
         IN [i \in 1..Len(os) |-> <<s, os[i]>>] \o MatchPairs(Tail(sources), files)

\* the pairs processed one after the other; a run killed in a write ends there
RECURSIVE MatchAll(_, _, _, _)
RECURSIVE MatchRest(_, _, _, _)
MatchAll(disk, pairs, k, crash) ==
    IF pairs = <<>> THEN [disk |-> disk, calls |-> <<>>, crashed |-> FALSE]
    ELSE MatchRest(MatchOne(disk, Head(pairs)[1], Head(pairs)[2], IF crash.dump = k THEN crash ELSE NoCrash),
                   Tail(pairs), k, crash)

MatchRest(r, pairs, k, crash) ==
    IF r.crashed THEN Single(r)
    ELSE Prepend(r.call, MatchAll(r.disk, pairs, k + 1, crash))

\* ------------------------------------------------- the inputs considered
CtxA == << <<"e", "v">>, <<"1">> >>
CtxB == << <<"e", "v">>, <<"2">> >>
CtxTerms == << <<"t">> >>
CtxCommon == << <<"c", "e">>, <<"1">> >>
CtxBattle == << <<"b", "e">>, <<"1">>, <<"p">> >>

OrigA == <<"a">>
OrigUp == <<"A">>
OrigB == <<"b", "NL", "c">>

NoText == <<>>
Tr == <<"QUOTE", "x", "BSL", "n", "TAB">>

\* identity keys the extraction of a file can yield
KeysOf(poname) ==
    CASE poname = "Map0001" -> {<<CtxA, OrigA>>, <<CtxA, OrigB>>, <<CtxB, OrigA>>}
      [] poname = "RPG_RT.lmt" -> {<<CtxA, OrigA>>, <<CtxB, OrigA>>}
      [] poname = "RPG_RT.ldb" -> {<<CtxTerms, OrigA>>}
      [] poname = "RPG_RT.ldb.common" -> {<<CtxCommon, OrigA>>}
      [] poname = "RPG_RT.ldb.battle" -> {<<CtxBattle, OrigB>>}

FreshLoc(ctx) == IF ctx = CtxB THEN <<>> ELSE IF ctx = CtxA THEN << <<"m", "1">> >> ELSE << <<"d">>, <<"e">> >>

SavedLoc == << <<"o">> >>

\* an extracted entry is fresh: no translation, not fuzzy
FreshEntries(poname) ==
    {[context |-> k[1], original |-> k[2], translation |-> NoText, fuzzy |-> FALSE,
      locations |-> FreshLoc(k[1])] : k \in KeysOf(poname)}

Variants == {<<NoText, FALSE>>, <<Tr, FALSE>>, <<Tr, TRUE>>}

\* an entry of a saved catalog carries what the file stored
SavedEntries(poname) ==
    {[context |-> k[1], original |-> k[2], translation |-> v[1], fuzzy |-> v[2],
      locations |-> SavedLoc] : k \in KeysOf(poname), v \in Variants}

DstEntries ==
    {[context |-> CtxA, original |-> o, translation |-> v[1], fuzzy |-> v[2],
      locations |-> SavedLoc] : o \in {OrigA, OrigUp, OrigB}, v \in {<<NoText, FALSE>>, <<Tr, TRUE>>}}

SrcEntries ==
    {[context |-> c, original |-> o, translation |-> NoText, fuzzy |-> FALSE,
      locations |-> <<>>] : c \in {CtxA, CtxB}, o \in {OrigA, OrigUp}}

OutNames == {"Map0001.po", "MAP0001.PO", "Map0001.stale.po", "Map0001.unmatched.po",
             "RPG_RT.lmt.po", "RPG_RT.lmt.stale.po",
             "RPG_RT.ldb.po", "RPG_RT.ldb.stale.po",
             "RPG_RT.ldb.common.po", "RPG_RT.ldb.common.stale.po",
             "RPG_RT.ldb.battle.po", "RPG_RT.ldb.battle.stale.po"}

MatchNames == {"Map0001.po", "MAP0001.PO"}

\* readdir order of the directory listing
ListingOrder == <<"MAP0001.PO", "Map0001.po", "RPG_RT.ldb.battle.po", "RPG_RT.ldb.common.po",
                  "RPG_RT.ldb.po", "RPG_RT.lmt.po">>

Listing(disk) == SelectSeq(ListingOrder, LAMBDA n : disk[n].exists)

NoCatalog == [exists |-> FALSE, cat |-> <<>>]

Saved(c) == [exists |-> TRUE, cat |-> c]

\* a directory holding the catalogs of `saved` (name -> saved catalog or none)
DiskOf(names, saved) ==
    [n \in names |-> IF n \in DOMAIN saved /\ saved[n].exists THEN File(Write(saved[n].cat)) ELSE NoFile]

SavedOpts(poname) == {NoCatalog} \cup {Saved(c) : c \in CatalogsOf(SavedEntries(poname), MaxExisting)}

\* saved catalogs the output directory may hold for a game file
SavedFor(g) ==
    CASE g = "Map0001.lmu" ->
            {[n \in {"Map0001.po"} |-> NoCatalog]}
            \cup {[n \in {m} |-> Saved(c)] : m \in {"Map0001.po", "MAP0001.PO"},
                                     c \in CatalogsOf(SavedEntries("Map0001"), MaxExisting)}
      [] g = "RPG_RT.lmt" -> {[n \in {"RPG_RT.lmt.po"} |-> c] : c \in SavedOpts("RPG_RT.lmt")}
      [] g = "RPG_RT.ldb" ->
            {[n \in {"RPG_RT.ldb.po", "RPG_RT.ldb.common.po", "RPG_RT.ldb.battle.po"} |->
                 CASE n = "RPG_RT.ldb.po" -> x[1] [] n = "RPG_RT.ldb.common.po" -> x[2] [] OTHER -> x[3]] :
             x \in {y \in SavedOpts("RPG_RT.ldb") \X SavedOpts("RPG_RT.ldb.common") \X SavedOpts("RPG_RT.ldb.battle") :
                      Len(y[1].cat) + Len(y[2].cat) + Len(y[3].cat) <= MaxExisting}}

FreshOf(poname) == CatalogsOf(FreshEntries(poname), MaxFresh)

\* the three catalogs fromLDB yields: terms, common_events, battle_events
LdbFresh ==
    {y \in FreshOf("RPG_RT.ldb") \X FreshOf("RPG_RT.ldb.common") \X FreshOf("RPG_RT.ldb.battle") :
        Len(y[1]) + Len(y[2]) + Len(y[3]) <= MaxFresh}

\* where a kill can hit the run: in the k-th catalog, writing the stale or the main file
Crashes(n) == {NoCrash} \cup {[dump |-> k, at |-> a, part |-> p] :
                                k \in 1..n, a \in {"stale", "po"}, p \in {"open", "half"}}

OldText == File(Write(<<[context |-> CtxB, original |-> OrigA, translation |-> Tr, fuzzy |-> FALSE, locations |-> <<>>]>>))

\* a catalog file edited by hand: no metadata record, a record without msgid, an
\* explicit empty msgctxt, another flag than fuzzy, strings split over
\* continuation lines, no blank line at the end
HandEdited ==
    <<Line("#:", <<"x">>), Line("msgstr", <<"l", "o", "s", "t">>), Line("blank", <<>>),
      Line("blank", <<>>),
      Line("#,", <<"c">>), Line("msgctxt", <<>>), Line("msgid", <<"B">>), Line("cont", <<"BSL", "t", "c">>),
      Line("msgstr", <<>>), Line("cont", <<"x", "BSL">>), Line("cont", <<"BSL", "n", "y">>)>>

\* ------------------------------------------------------------------ Init
InitDump ==
    /\ mode \in {"create", "update"}
    /\ \E g \in {"Map0001.lmu", "RPG_RT.ldb", "RPG_RT.lmt"} :
         /\ source_files = <<g>>
         /\ \E saved \in SavedFor(g) :
               /\ mode = "create" => \A n \in DOMAIN saved : Len(saved[n].cat) <= 1
               /\ outdir = DiskOf(OutNames, saved)
    /\ outdir_files = IF mode = "update" THEN Listing(outdir) ELSE <<>>
    /\ indir = [n \in MatchNames |-> NoFile]
    /\ merge_indir = [n \in MatchNames |-> NoFile]
    /\ calls = <<>>
    /\ status = "running"

InitMatch ==
    /\ mode = "match"
    /\ \E s \in MatchNames :
         /\ source_files = <<s, "Map0001.lmu">>
         /\ \E src \in CatalogsOf(SrcEntries, MaxSrc) :
               merge_indir = [n \in MatchNames |-> IF n = s THEN File(Write(src)) ELSE NoFile]
    /\ \E text \in {Write(dst) : dst \in CatalogsOf(DstEntries, MaxDst)} \cup {HandEdited} :
         indir = [n \in MatchNames |-> IF n = "Map0001.po" THEN File(text) ELSE NoFile]
    /\ outdir_files = <<"Map0001.po">>
    /\ outdir = [n \in OutNames |-> IF n = "Map0001.po" THEN OldText ELSE NoFile]
    /\ calls = <<>>
    /\ status = "running"

Init == InitDump \/ InitMatch

\* --------------------------------------------------------------- actions
Dumping == status = "running" /\ mode \in {"create", "update"} /\ source_files # <<>>

\* the handler returns (or the process is gone)
Finish(r) ==
    /\ outdir' = r.disk
    /\ calls' = r.calls
    /\ status' = IF r.crashed THEN "crashed" ELSE "running"

\* main: lname == DATABASE_FILE -> DumpLdb(full_path(name))
DumpLdb ==
    /\ Dumping
    /\ LowerCase(Head(source_files)) = DATABASE_FILE
    /\ \E f \in LdbFresh, crash \in Crashes(3) :
         Finish(DumpEach(outdir, outdir_files, mode = "update",
                         <<<<f[1], "RPG_RT.ldb">>, <<f[2], "RPG_RT.ldb.common">>, <<f[3], "RPG_RT.ldb.battle">>>>,
                         1, crash))
    /\ source_files' = Tail(source_files)
    /\ UNCHANGED <<mode, outdir_files, indir, merge_indir>>

\* main: lname == MAPTREE_FILE -> DumpLmt(full_path(name))
DumpLmt ==
    /\ Dumping
    /\ LowerCase(Head(source_files)) = MAPTREE_FILE
    /\ \E t \in FreshOf("RPG_RT.lmt"), crash \in Crashes(1) :
         Finish(Single(DumpLmuLmtInner("DumpLmt", outdir, outdir_files, mode = "update", t, "RPG_RT.lmt", crash)))
    /\ source_files' = Tail(source_files)
    /\ UNCHANGED <<mode, outdir_files, indir, merge_indir>>

\* main: Utils::HasExt(lname, ".lmu") -> DumpLmu(full_path(name))
DumpLmu ==
    /\ Dumping
    /\ LowerCase(Head(source_files)) \notin {DATABASE_FILE, MAPTREE_FILE}
    /\ HasExtLmu(LowerCase(Head(source_files)))
    /\ \E t \in FreshOf(GetFilename(Head(source_files))), crash \in Crashes(1) :
         Finish(Single(DumpLmuLmtInner("DumpLmu", outdir, outdir_files, mode = "update", t,
                                       GetFilename(Head(source_files)), crash)))
    /\ source_files' = Tail(source_files)
    /\ UNCHANGED <<mode, outdir_files, indir, merge_indir>>

\* main: if (match) return MatchMode();
MatchMode ==
    /\ status = "running"
    /\ mode = "match"
    /\ source_files # <<>>
    /\ \E crash \in Crashes(1) :
         Finish(MatchAll(outdir, MatchPairs(SortFiles(source_files), outdir_files), 1, crash))
    /\ source_files' = <<>>
    /\ UNCHANGED <<mode, outdir_files, indir, merge_indir>>

Next == DumpLdb \/ DumpLmt \/ DumpLmu \/ MatchMode

Spec == Init /\ [][Next]_vars

\* ---------------------------------------------------------------- claims
CallIdx == 1..Len(calls)

Untranslated(e) == e.translation = NoText /\ ~e.fuzzy

\* position of the entry with identity key k in catalog c (keys are unique)
PosOf(c, k) == CHOOSE i \in 1..Len(c) : Key(c[i]) = k

\* C1 (Merge identity-preservation): in every update that found a saved catalog,
\* the catalog handed to write holds, for each fresh entry whose identity key is in
\* the saved catalog, an entry with that context and original carrying the saved
\* translation and fuzzy flag, and for each fresh entry whose key is not saved
\* an untranslated, not fuzzy entry; an update that completes leaves exactly
\* that catalog in <name>.po.
C1_MergeIdentityPreservation ==
    \A i \in CallIdx :
        LET c == calls[i]
        IN c.merging =>
            /\ ~c.crashed => outdir[c.outname] = File(Write(c.t))
            /\ \A j \in 1..Len(c.fresh) :
                 LET e == c.fresh[j]
                 IN IF HasKey(c.pot, Key(e))
                    THEN \E k \in 1..Len(c.t) :
                            /\ c.t[k].context = e.context
                            /\ c.t[k].original = e.original
                            /\ c.t[k].translation = Lookup(c.pot, Key(e)).translation
                            /\ c.t[k].fuzzy = Lookup(c.pot, Key(e)).fuzzy
                    ELSE \E k \in 1..Len(c.t) :
                            /\ c.t[k].context = e.context
                            /\ c.t[k].original = e.original
                            /\ Untranslated(c.t[k])

\* an update merged a fresh catalog holding a key saved with a fuzzy translation and
\* a key whose wording changed at a saved context
C1_Witness ==
    \E i \in CallIdx :
        LET c == calls[i]
        IN /\ c.merging /\ ~c.crashed
           /\ \E j \in 1..Len(c.fresh) :
                /\ HasKey(c.pot, Key(c.fresh[j]))
                /\ Lookup(c.pot, Key(c.fresh[j])).translation = Tr
                /\ Lookup(c.pot, Key(c.fresh[j])).fuzzy
           /\ \E j \in 1..Len(c.fresh), k \in 1..Len(c.pot) :
                /\ ~HasKey(c.pot, Key(c.fresh[j]))
                /\ c.pot[k].context = c.fresh[j].context

\* C2 (Merge staleness): the stale catalog of an update holds exactly the saved
\* entries whose identity key the fresh extraction lacks, each as saved, in the
\* saved catalog's order, and none of their keys is in the merged catalog.
C2_MergeStaleness ==
    \A i \in CallIdx :
        LET c == calls[i]
        IN c.merging =>
            /\ \A k \in 1..Len(c.stale) :
                 /\ \E p \in 1..Len(c.pot) : c.pot[p] = c.stale[k]
                 /\ Key(c.stale[k]) \notin KeySet(c.fresh)
                 /\ Key(c.stale[k]) \notin KeySet(c.t)
            /\ \A p \in 1..Len(c.pot) :
                 Key(c.pot[p]) \notin KeySet(c.fresh) => \E k \in 1..Len(c.stale) : c.stale[k] = c.pot[p]
            /\ Len(c.stale) = Cardinality({p \in 1..Len(c.pot) : Key(c.pot[p]) \notin KeySet(c.fresh)})
            /\ \A a, b \in 1..Len(c.stale) :
                 a < b => PosOf(c.pot, Key(c.stale[a])) < PosOf(c.pot, Key(c.stale[b]))

\* an update left two stale entries, one of them translated, beside a kept one
C2_Witness ==
    \E i \in CallIdx :
        LET c == calls[i]
        IN /\ c.merging
           /\ Len(c.stale) = 2
           /\ c.stale[2].translation = Tr
           /\ Len(c.t) >= 1

\* C3 (Merge completeness): the merged catalog has as many entries as the fresh
\* one and the same sequence of identity keys; against an empty saved catalog
\* every merged entry is untranslated and nothing is stale.
C3_MergeCompleteness ==
    \A i \in CallIdx :
        LET c == calls[i]
        IN c.handler # "MatchMode" =>
            /\ Len(c.t) = Len(c.fresh)
            /\ Keys(c.t) = Keys(c.fresh)
            /\ (c.merging /\ c.pot = <<>>) =>
                 /\ \A k \in 1..Len(c.t) : Untranslated(c.t[k])
                 /\ c.stale = <<>>

\* an update merged two fresh entries with a saved catalog that holds no entry
C3_Witness ==
    \E i \in CallIdx : calls[i].merging /\ Len(calls[i].fresh) = 2 /\ calls[i].pot = <<>>
                        /\ ~calls[i].crashed

MatchIdx == {i \in CallIdx : calls[i].handler = "MatchMode"}

\* destination entries of a match call with an exact / an approximate counterpart
ExactSet(c) == {k \in 1..Len(c.fresh) : \E j \in 1..Len(c.pot) : c.pot[j].original = c.fresh[k].original}

ApproxSet(c) ==
    {k \in 1..Len(c.fresh) \ ExactSet(c) :
        \E j \in 1..Len(c.pot) : Normalize(c.pot[j].original) = Normalize(c.fresh[k].original)}

C6_MatchFrame ==
    \A i \in MatchIdx :
        LET c == calls[i]
            unmatched == (1..Len(c.fresh)) \ (ExactSet(c) \cup ApproxSet(c))
        IN /\ Len(c.t) = Len(c.fresh)
           /\ Keys(c.t) = Keys(c.fresh)
           /\ \A k \in unmatched :
                /\ c.t[k] = c.fresh[k]
                /\ \E n \in 1..Len(c.stale) : c.stale[n] = c.fresh[k]
           /\ \A n \in 1..Len(c.stale) : \E k \in unmatched : c.fresh[k] = c.stale[n]
           /\ Len(c.stale) = Cardinality(unmatched)

\* a match with an unmatched translated entry beside an approximately matched one
C6_Witness ==
    \E i \in MatchIdx :
        LET c == calls[i]
        IN /\ Len(c.stale) = 1 /\ c.stale[1].translation = Tr
           /\ ApproxSet(c) # {}
           /\ ~c.crashed

\* C8 (Codec round-trip): a catalog produced by Parse is reproduced by
\* Parse(Write(c)), entry for entry with all five fields; a destination catalog
\* that Match leaves unmodified is read back from the written file as it was
\* read from the input file, and so are the stale entries.
C8_RoundTrip ==
    \A i \in CallIdx :
        LET c == calls[i]
        IN /\ (c.merging \/ c.handler = "MatchMode") => Parse(Write(c.pot)) = c.pot
           /\ c.handler = "MatchMode" =>
                /\ Parse(Write(c.fresh)) = c.fresh
                /\ (~c.crashed /\ c.t = c.fresh) => Parse(outdir[c.outname].text) = Parse(indir[c.poname].text)
           /\ (~c.crashed /\ c.stale # <<>> /\ (c.merging \/ c.handler = "MatchMode")) =>
                Parse(outdir[c.stalename].text) = c.stale

\* a match wrote back, unmodified, a catalog of two entries: one fuzzy with a
\* translation that needs every escape, one with a multi-line original
C8_Witness ==
    \E i \in MatchIdx :
        LET c == calls[i]
        IN /\ ~c.crashed /\ c.t = c.fresh /\ Len(c.fresh) = 2
           /\ \E k \in 1..2 : c.fresh[k].fuzzy /\ c.fresh[k].translation = Tr
           /\ \E k \in 1..2 : c.fresh[k].original = OrigB
           /\ outdir[c.outname] = File(Write(c.fresh))

SavedName(c) == get_outdir_file(outdir_files, LowerCase(c.outname))

SavedCatalog(c) == IF SavedName(c) = c.outname THEN Parse(c.prior.text) ELSE Parse(outdir[SavedName(c)].text)

\* C4 as stated (Update surfaces every removed entry): whenever update mode
\* processes an input file for which a saved catalog exists, whatever the fresh
\* extraction yields, the merged catalog is written to <name>.po and
\* <name>.stale.po is written exactly when a saved entry's identity key is
\* absent from the fresh extraction.
C4_UpdateSurfacesStale ==
    (mode = "update" /\ status = "running") =>
        \A i \in CallIdx :
            LET c == calls[i]
            IN SavedName(c) # "" =>
                /\ c.outname \in c.written
                /\ outdir[c.outname] = File(Write(Merge(c.fresh, SavedCatalog(c)).merged))
                /\ c.stalename \in c.written <=>
                       \E p \in 1..Len(SavedCatalog(c)) : Key(SavedCatalog(c)[p]) \notin KeySet(c.fresh)

\* C7 as stated (no truncated catalog on disk): a file a handler began to write
\* holds its complete prior content or the complete new catalog, whether or not
\* the write was cut short.
C7_NoTruncatedCatalog ==
    \A i \in CallIdx :
        LET c == calls[i]
        IN /\ c.outname \in c.written =>
                (outdir[c.outname] = c.prior \/ outdir[c.outname] = File(Write(c.t)))
           /\ c.stalename \in c.written =>
                (outdir[c.stalename] = NoFile \/ outdir[c.stalename] = File(Write(c.stale)))

\* C9 as stated (reported fuzzy count): the fuzzy count MatchMode reports is the
\* number of destination entries filled by approximate matching in this call.
C9_FuzzyCountIsApproximate ==
    \A i \in MatchIdx : calls[i].fuzzy = Cardinality(ApproxSet(calls[i]))

====
